---- MODULE Spec2Model ----
(***************************************************************************)
(* Model of civitai-user-downloader (src/index.js): the TagFilter, the     *)
(* MetadataCache, the PQueue of download jobs and the CivitDownloader      *)
(* orchestrator.                                                           *)
(*                                                                         *)
(* JavaScript runs one handler at a time: the synchronous code between two *)
(* awaits is atomic with respect to the download jobs.  The job events     *)
(* (response, stream end/error, writer open) are therefore enabled only    *)
(* while the orchestrator is suspended in an await (AtAwait).              *)
(*                                                                         *)
(* Spec is the program over small listings and stores.  FilterSpec is the  *)
(* same program run offline over a one-record store for many include       *)
(* queries, exclude lists and prompts: it exercises the TagFilter.         *)
(***************************************************************************)
EXTENDS Integers, Sequences, FiniteSets, TLC

\* ---------------------------------------------------------------- bounds
MaxId == 2          \* item ids are 1..MaxId
MaxFetches == 2     \* pages the listing endpoint yields before the cursor ends
MaxConcurrency == 2 \* configured --concurrency is 1..MaxConcurrency
MaxQueryLen == 3    \* every --tags text of up to MaxQueryLen symbols is tried
MaxPromptLen == 2   \* prompts have up to MaxPromptLen words

\* ---------------------------------------------------------------- data
Ids == 1..MaxId

\* meta.prompt of the listed items: a sequence of words
Prompts == {<<>>, <<"cat">>}

ImageRecord == [id : Ids, prompt : Prompts]

\* values of --limit explored
Limits == {0, 1, 2}

RECURSIVE SeqsUpTo(_, _)
SeqsUpTo(S, n) ==
    IF n = 0 THEN {<<>>}
    ELSE LET shorter == SeqsUpTo(S, n - 1)
         IN  shorter \cup {Append(s, x) : s \in {t \in shorter : Len(t) = n - 1}, x \in S}

\* the listing is sorted (sort=Newest): ids run in order within an array
SortedById(s) == \A i, j \in 1..Len(s) : i < j => s[i].id < s[j].id

\* a page lists an item once, in listing order; successive pages may overlap
Pages == {s \in SeqsUpTo(ImageRecord, MaxId) : SortedById(s)}

\* arrays a previous run can have written to metadata.json
StoredArrays == Pages

MetaFiles == {[st |-> "absent", arr |-> <<>>], [st |-> "corrupt", arr |-> <<>>]}
             \cup {[st |-> "ok", arr |-> a] : a \in StoredArrays}

\* ---------------------------------------------------------------- TagFilter
\* A text (query, term, exclusion piece) is a sequence of symbols: a word, a
\* blank " ", a keyword "AND" / "OR" / "NOT" (in any letter case: the split is
\* case-insensitive) or a parenthesis.  A prompt is a sequence of words, which
\* stands for the words joined by single blanks.
Keywords == {"AND", "OR", "NOT"}
Parens == {"(", ")"}

\* the run configurations' filters:
\*   --tags "cat" --exclude-tags "dog,"   and   --tags "(cat"
\* an exclude list is given as its pieces between the commas, trimmed
Filters == {[tags |-> <<"cat">>, excludeTags |-> << <<"dog">>, <<>> >>],
            [tags |-> <<"(", "cat">>, excludeTags |-> <<>>]}

RECURSIVE SpacesFrom(_, _)
\* the length of the run of blanks that starts at position i
SpacesFrom(q, i) ==
    IF i <= Len(q) /\ q[i] = " " THEN 1 + SpacesFrom(q, i + 1) ELSE 0

\* the separator /\s+(AND|OR|NOT)\s+|\s*(\(|\))\s*/i matched at position i:
\* its length (0 when it does not match there) and its captured token
MatchAt(q, i) ==
    LET n1 == SpacesFrom(q, i)
        k == i + n1
        n2 == SpacesFrom(q, k + 1)
    IN  IF k > Len(q) THEN [len |-> 0, tok |-> ""]
        ELSE IF q[k] \in Keywords /\ n1 >= 1 /\ n2 >= 1
             THEN [len |-> n1 + 1 + n2, tok |-> q[k]]
        ELSE IF q[k] \in Parens
             THEN [len |-> n1 + 1 + n2, tok |-> q[k]]
        ELSE [len |-> 0, tok |-> ""]

RECURSIVE splitFrom(_, _, _)
\* String.prototype.split with the separator above: the pieces between the
\* matches, each match followed by its captured token
splitFrom(q, i, piece) ==
    IF i > Len(q) THEN <<piece>>
    ELSE LET m == MatchAt(q, i)
         IN  IF m.len > 0
             THEN <<piece, <<m.tok>>>> \o splitFrom(q, i + m.len, <<>>)
             ELSE splitFrom(q, i + 1, Append(piece, q[i]))

\* String.prototype.trim
trim(t) ==
    LET nonBlank == {i \in 1..Len(t) : t[i] # " "}
    IN  IF nonBlank = {} THEN <<>>
        ELSE SubSeq(t, CHOOSE i \in nonBlank : \A j \in nonBlank : i <= j,
                       CHOOSE i \in nonBlank : \A j \in nonBlank : j <= i)

\* query.split(...).filter(t => t && t.trim())
tokenize(query) == SelectSeq(splitFrom(query, 1, <<>>), LAMBDA t : trim(t) # <<>>)

Op(k) == [k |-> k, i |-> 0]
Term(i) == [k |-> "T", i |-> i]

mapOperatorSwapped(op) ==
    IF op = "AND" THEN Op("||")
    ELSE IF op = "OR" THEN Op("&&")
    ELSE IF op = "NOT" THEN Op("!")
    ELSE Op(op)

mapOperator(op) ==
    IF op = "AND" THEN Op("&&")
    ELSE IF op = "OR" THEN Op("||")
    ELSE IF op = "NOT" THEN Op("!")
    ELSE Op(op)

RECURSIVE parseTokens(_)
\* the forEach over the tokens: [terms, expression]
parseTokens(tokens) ==
    IF tokens = <<>> THEN [terms |-> <<>>, expression |-> <<>>]
    ELSE LET n == Len(tokens)
             rest == parseTokens(SubSeq(tokens, 1, n - 1))
             token == tokens[n]
             upper == trim(token)
         IN  IF Len(upper) = 1 /\ upper[1] \in Keywords \cup Parens
             THEN [terms |-> rest.terms,
                   expression |-> Append(rest.expression, mapOperator(upper[1]))]
             ELSE [terms |-> Append(rest.terms, token),
                   expression |-> Append(rest.expression, Term(Len(rest.terms) + 1))]

\* a blank query gives no term (and the expression "true"); the terms' texts
\* are the pieces the split left between the separators it recognised
parseInclusions(query) ==
    IF trim(query) = <<>> THEN [terms |-> <<>>, expression |-> <<>>]
    ELSE parseTokens(tokenize(query))

\* .filter(Boolean) drops the empty pieces
parseExclusions(list) == SelectSeq(list, LAMBDA t : t # <<>>)

RECURSIVE promptText(_)
\* the prompt as a text: its words joined by single blanks
promptText(prompt) ==
    IF Len(prompt) <= 1 THEN prompt
    ELSE <<Head(prompt), " ">> \o promptText(Tail(prompt))

\* the only plural among the prompt words
Singular(w) == IF w = "cats" THEN "cat" ELSE w

\* the pattern \b\d*<text>\b of an exclusion tested on a prompt: the text
\* occurs in the prompt, on whole words
ExclusionTest(text, prompt) ==
    LET p == promptText(prompt)
        n == Len(text)
    IN  \E o \in 0..(Len(p) - n) : \A i \in 1..n : p[o + i] = text[i]

\* the pattern \b\d*<text>s?\b of an include term: the same, and the last word
\* may be a plural
TermTest(text, prompt) ==
    LET p == promptText(prompt)
        n == Len(text)
    IN  \E o \in 0..(Len(p) - n) :
            /\ \A i \in 1..(n - 1) : p[o + i] = text[i]
            /\ text[n] \in {p[o + n], Singular(p[o + n])}

\* JavaScript's parse and evaluation of the generated expression:
\*   Or := And ("||" And)* ; And := Unary ("&&" Unary)* ;
\*   Unary := "!" Unary | Call ; Call := Primary ( "(" [Or] ")" )* ;
\*   Primary := "(" Or ")" | term
\* val is "T", "F" or "X": the evaluation throws (a boolean was called)
RECURSIVE JsOr(_, _, _, _), JsOrTail(_, _, _, _, _), JsAnd(_, _, _, _),
          JsAndTail(_, _, _, _, _), JsUnary(_, _, _, _), JsCallTail(_, _, _, _, _)
Bad == [ok |-> FALSE, pos |-> 0, val |-> "F"]

JsNot(v) == IF v = "X" THEN "X" ELSE IF v = "T" THEN "F" ELSE "T"

\* a && b, a || b: the right operand is evaluated only when the left decides nothing
JsAndVal(a, b) == IF a = "T" THEN b ELSE a

JsOrVal(a, b) == IF a = "F" THEN b ELSE a

JsPrimary(e, p, terms, prompt) ==
    IF p > Len(e) THEN Bad
    ELSE IF e[p].k = "("
         THEN LET r == JsOr(e, p + 1, terms, prompt)
              IN  IF r.ok /\ r.pos <= Len(e) /\ e[r.pos].k = ")"
                  THEN [r EXCEPT !.pos = r.pos + 1] ELSE Bad
    ELSE IF e[p].k = "T"
         THEN [ok |-> TRUE, pos |-> p + 1,
               val |-> IF TermTest(terms[e[p].i], prompt) THEN "T" ELSE "F"]
    ELSE Bad

\* f(...) parses as a call whatever f is; calling a boolean throws a TypeError
JsCallTail(e, p, val, terms, prompt) ==
    IF p <= Len(e) /\ e[p].k = "("
    THEN IF p + 1 <= Len(e) /\ e[p + 1].k = ")"
         THEN JsCallTail(e, p + 2, "X", terms, prompt)
         ELSE LET r == JsOr(e, p + 1, terms, prompt)
              IN  IF r.ok /\ r.pos <= Len(e) /\ e[r.pos].k = ")"
                  THEN JsCallTail(e, r.pos + 1, "X", terms, prompt) ELSE Bad
    ELSE [ok |-> TRUE, pos |-> p, val |-> val]

JsUnary(e, p, terms, prompt) ==
    IF p > Len(e) THEN Bad
    ELSE IF e[p].k = "!"
         THEN LET r == JsUnary(e, p + 1, terms, prompt)
              IN  IF r.ok THEN [r EXCEPT !.val = JsNot(r.val)] ELSE Bad
    ELSE LET r == JsPrimary(e, p, terms, prompt)
         IN  IF r.ok THEN JsCallTail(e, r.pos, r.val, terms, prompt) ELSE Bad

JsAndTail(e, p, acc, terms, prompt) ==
    IF p <= Len(e) /\ e[p].k = "&&"
    THEN LET r == JsUnary(e, p + 1, terms, prompt)
         IN  IF r.ok THEN JsAndTail(e, r.pos, JsAndVal(acc, r.val), terms, prompt) ELSE Bad
    ELSE [ok |-> TRUE, pos |-> p, val |-> acc]

JsAnd(e, p, terms, prompt) ==
    LET r == JsUnary(e, p, terms, prompt)
    IN  IF r.ok THEN JsAndTail(e, r.pos, r.val, terms, prompt) ELSE Bad

JsOrTail(e, p, acc, terms, prompt) ==
    IF p <= Len(e) /\ e[p].k = "||"
    THEN LET r == JsAnd(e, p + 1, terms, prompt)
         IN  IF r.ok THEN JsOrTail(e, r.pos, JsOrVal(acc, r.val), terms, prompt) ELSE Bad
    ELSE [ok |-> TRUE, pos |-> p, val |-> acc]

JsOr(e, p, terms, prompt) ==
    LET r == JsAnd(e, p, terms, prompt)
    IN  IF r.ok THEN JsOrTail(e, r.pos, r.val, terms, prompt) ELSE Bad

\* `return <expression>;` : the whole text must be one expression
JsEval(e, terms, prompt) ==
    IF e = <<>> THEN [ok |-> TRUE, pos |-> 1, val |-> "T"]
    ELSE LET r == JsOr(e, 1, terms, prompt)
         IN  IF r.ok /\ r.pos = Len(e) + 1 THEN r ELSE Bad

\* compile: the predicate it returns, as the terms, exclusions and expression
\* bound into it (always: the constant () => true); ok is FALSE when
\* new Function(...) rejects the generated body and the process exits
compile(query, excludeString) ==
    LET exclusions == parseExclusions(excludeString)
        inc == parseInclusions(query)
        always == Len(exclusions) = 0 /\ Len(inc.terms) = 0
    IN  [ok |-> always \/ JsEval(inc.expression, inc.terms, <<>>).ok,
         always |-> always,
         terms |-> inc.terms,
         expression |-> inc.expression,
         exclusions |-> exclusions]

compileOk(query, excludeString) == compile(query, excludeString).ok

predicateIncludeFirst(fn, prompt) ==
    LET val == JsEval(fn.expression, fn.terms, prompt).val
    IN  IF fn.always THEN "T"
        ELSE IF val = "T" THEN "T"
        ELSE IF \E i \in 1..Len(fn.exclusions) : ExclusionTest(fn.exclusions[i], prompt) THEN "F"
        ELSE val

\* the compiled predicate run on a prompt: "T", "F", or "X" when it throws
predicate(fn, prompt) ==
    IF fn.always THEN "T"
    ELSE IF \E i \in 1..Len(fn.exclusions) : ExclusionTest(fn.exclusions[i], prompt) THEN "F"
    ELSE JsEval(fn.expression, fn.terms, prompt).val

testOutcome(query, excludeString, prompt) == predicate(compile(query, excludeString), prompt)

\* TagFilter.test returns a true value
test(query, excludeString, prompt) == testOutcome(query, excludeString, prompt) = "T"

\* ---------------------------------------------------------------- state
VARIABLES
    pc,        \* position of the control flow (main action handler / run)
    cfg,       \* configuration
    filter,    \* the predicate compiled by new TagFilter(...)
    stats,     \* CivitDownloader.stats
    data,      \* MetadataCache.data, in Map insertion order
    files,     \* MetadataCache.files (FileIndex)
    metaFile,  \* metadata.json on disk
    disk,      \* ids that have an image file in the output directory
    nextUrl,   \* runOnlineStrategy's nextUrl is non-null
    metadata,  \* metadata of the last page received
    fetches,   \* page requests issued
    batch,     \* items of the processBatch call in progress
    bi,        \* index of the next item of batch
    jobs,      \* download jobs submitted, in submission order
    queue,     \* PQueue: indexes of the jobs waiting to start
    pending,   \* PQueue: number of jobs started and not settled
    log,       \* saves and console reports, in order
    \* history of the run (not program state)
    latest,    \* id -> the record most recently put into the store for it
    unscanned  \* ids the data source has yielded and the scan has not reached, in order

hist == <<latest, unscanned>>

vars == <<pc, cfg, filter, stats, data, files, metaFile, disk, nextUrl, metadata, fetches,
          batch, bi, jobs, queue, pending, log, latest, unscanned>>

\* no TagFilter has been constructed yet
NoFilter == [ok |-> FALSE, always |-> FALSE, terms |-> <<>>, expression |-> <<>>,
             exclusions |-> <<>>]

Configs == {[offline |-> o, limit |-> l, concurrency |-> c,
             tags |-> f.tags, excludeTags |-> f.excludeTags] :
               o \in BOOLEAN, l \in Limits, c \in 1..MaxConcurrency, f \in Filters}

Init ==
    /\ pc = "main"
    /\ cfg \in Configs
    /\ filter = NoFilter
    /\ stats = [scanned |-> 0, matches |-> 0, downloaded |-> 0, skipped |-> 0]
    /\ data = <<>>
    /\ files = {}
    /\ metaFile \in MetaFiles
    /\ disk \in {1..k : k \in 0..MaxId}
    /\ nextUrl = FALSE
    /\ metadata = [nextPage |-> FALSE]
    /\ fetches = 0
    /\ batch = <<>>
    /\ bi = 1
    /\ jobs = <<>>
    /\ queue = <<>>
    /\ pending = 0
    /\ log = <<>>
    /\ latest = <<>>
    /\ unscanned = <<>>

\* ---------------------------------------------------------------- MetadataCache
IdsOf(s) == {s[i].id : i \in 1..Len(s)}

IdSeq(s) == [i \in 1..Len(s) |-> s[i].id]

RECURSIVE Puts(_, _)
\* history: the records of items put one after the other over f
Puts(f, items) ==
    IF items = <<>> THEN f
    ELSE Puts((Head(items).id :> Head(items)) @@ f, Tail(items))


loadFiles(d) == d

IndexOfId(s, id) == IF \E i \in 1..Len(s) : s[i].id = id
                    THEN CHOOSE i \in 1..Len(s) : s[i].id = id
                    ELSE 0

MapSetAppend(s, item) == Append(s, item)

\* Map.set: an existing key keeps its position, a new key goes last
MapSet(s, item) ==
    LET i == IndexOfId(s, item.id)
    IN  IF i = 0 THEN Append(s, item) ELSE [s EXCEPT ![i] = item]

upsertBatchReplace(s, items) == items

RECURSIVE upsertBatch(_, _)
upsertBatch(s, items) ==
    IF items = <<>> THEN s
    ELSE upsertBatch(MapSet(s, Head(items)), Tail(items))

\* new Map(JSON.parse(raw).map(item => [item.id, item])): the entries are set
\* in array order; a missing or unparsable file leaves the store empty
loadMetadata(file) == IF file.st = "ok" THEN upsertBatch(<<>>, file.arr) ELSE <<>>

getAllReversed(s) == [i \in 1..Len(s) |-> s[Len(s) + 1 - i]]

getAll(s) == s

isEmptyNever(s) == FALSE

isEmpty(s) == Len(s) = 0

hasFile(f, id) == id \in f

save(s) == [st |-> "ok", arr |-> s]

\* ---------------------------------------------------------------- PQueue and jobs
\* job states: queued, returning (target existed, job body returned),
\* requesting (axios pending), streaming, ok, failed;
\* writer states: none, opening (fs.open pending), open (the file exists)
Job(id) == [id |-> id, st |-> "queued", w |-> "none"]

\* the synchronous head of downloadItem, run when PQueue starts the job
downloadItemStart(job, d) ==
    IF job.id \in d THEN [job EXCEPT !.st = "returning"]
    ELSE [job EXCEPT !.st = "requesting"]

CanStartOffByOne(p, concurrency) == p <= concurrency

CanStart(p, concurrency) == p < concurrency

\* PQueue's tryToStartAnother on q = [jobs, queue, pending]
tryToStartAnother(q, d, concurrency) ==
    IF q.queue # <<>> /\ CanStart(q.pending, concurrency)
    THEN [jobs |-> [q.jobs EXCEPT ![Head(q.queue)] = downloadItemStart(@, d)],
          queue |-> Tail(q.queue),
          pending |-> q.pending + 1]
    ELSE q

\* queue.add(job)
queueAdd(q, id, d, concurrency) ==
    tryToStartAnother([jobs |-> Append(q.jobs, Job(id)),
                       queue |-> Append(q.queue, Len(q.jobs) + 1),
                       pending |-> q.pending], d, concurrency)

jobSettledNoNext(q, j, st, d, concurrency) ==
    [jobs |-> [q.jobs EXCEPT ![j].st = st],
     queue |-> q.queue,
     pending |-> q.pending - 1]

\* a started job settles: PQueue decrements pending and starts the next one
jobSettled(q, j, st, d, concurrency) ==
    tryToStartAnother([jobs |-> [q.jobs EXCEPT ![j].st = st],
                       queue |-> q.queue,
                       pending |-> q.pending - 1], d, concurrency)

Q == [jobs |-> jobs, queue |-> queue, pending |-> pending]

SetQ(q) == /\ jobs' = q.jobs
           /\ queue' = q.queue
           /\ pending' = q.pending

isIdleQueueOnly == queue = <<>>

\* PQueue.onIdle() resolves when this holds
isIdle == queue = <<>> /\ pending = 0

\* ---------------------------------------------------------------- orchestrator
isLimitReachedStrict == stats.matches > cfg.limit

isLimitReached == stats.matches >= cfg.limit

isUserEmpty(items) == stats.scanned = 0 /\ Len(items) = 0

\* main's action handler: new TagFilter(...), then downloader.run()
CreateServices ==
    /\ pc = "main"
    /\ filter' = compile(cfg.tags, cfg.excludeTags)
    /\ IF filter'.ok
       THEN /\ pc' = "init"
            /\ log' = log
       ELSE /\ pc' = "exit"
            /\ log' = Append(log, "InvalidSyntax")
    /\ UNCHANGED <<cfg, stats, data, files, metaFile, disk, nextUrl, metadata,
                   fetches, batch, bi, jobs, queue, pending>>
    /\ UNCHANGED hist

\* run(): initialize(), which is outside run's try block
initialize ==
    /\ pc = "init"
    /\ data' = loadMetadata(metaFile)
    /\ files' = loadFiles(disk)
    /\ IF cfg.offline /\ isEmpty(data')
       THEN /\ pc' = "exit"
            /\ log' = Append(log, "Error")
            /\ nextUrl' = nextUrl
       ELSE /\ pc' = IF cfg.offline THEN "offline" ELSE "loop"
            /\ log' = log
            /\ nextUrl' = ~cfg.offline
    /\ latest' = Puts(latest, IF metaFile.st = "ok" THEN metaFile.arr ELSE <<>>)
    /\ unscanned' = IF cfg.offline /\ metaFile.st = "ok" THEN IdSeq(metaFile.arr) ELSE <<>>
    /\ UNCHANGED <<cfg, filter, stats, metaFile, disk, metadata, fetches, batch, bi,
                   jobs, queue, pending>>

runOfflineStrategy ==
    /\ pc = "offline"
    /\ batch' = getAll(data)
    /\ bi' = 1
    /\ pc' = "batch"
    /\ UNCHANGED <<cfg, filter, stats, data, files, metaFile, disk, nextUrl, metadata,
                   fetches, jobs, queue, pending, log>>
    /\ UNCHANGED hist

whileConditionUrlOnly(url) == url

\* the loop condition of runOnlineStrategy; a true condition issues the request
whileCondition(url) == url /\ ~isLimitReached

runOnlineStrategy ==
    /\ pc = "loop"
    /\ IF whileCondition(nextUrl)
       THEN /\ pc' = "fetching"
            /\ fetches' = fetches + 1
       ELSE /\ pc' = "draining"
            /\ fetches' = fetches
    /\ UNCHANGED <<cfg, filter, stats, data, files, metaFile, disk, nextUrl, metadata,
                   batch, bi, jobs, queue, pending, log>>
    /\ UNCHANGED hist

\* the request resolves with {items, metadata}
fetchPageOk ==
    /\ pc = "fetching"
    /\ \E items \in Pages, next \in BOOLEAN :
         /\ fetches = MaxFetches => ~next
         /\ metadata' = [nextPage |-> next]
         /\ latest' = Puts(latest, items)
         /\ unscanned' = unscanned \o IdSeq(items)
         /\ IF isUserEmpty(items)
            THEN /\ pc' = "draining"
                 /\ log' = Append(log, "noImages")
                 /\ UNCHANGED <<data, batch, bi>>
            ELSE /\ data' = upsertBatch(data, items)
                 /\ batch' = items
                 /\ bi' = 1
                 /\ pc' = "batch"
                 /\ log' = log
    /\ UNCHANGED <<cfg, filter, stats, files, metaFile, disk, nextUrl, fetches,
                   jobs, queue, pending>>

fetchPageMalformedReportFirst ==
    /\ pc = "fetching"
    /\ metaFile' = save(data)
    /\ log' = log \o <<"FatalError", "save">>
    /\ pc' = "fatal"
    /\ UNCHANGED <<cfg, filter, stats, data, files, disk, nextUrl, metadata, fetches,
                   batch, bi, jobs, queue, pending>>
    /\ UNCHANGED hist

\* the request resolves with a body that has no items array: the destructured
\* items is undefined and its use throws into run's catch block
fetchPageMalformed ==
    /\ pc = "fetching"
    /\ metaFile' = save(data)
    /\ log' = log \o <<"save", "FatalError">>
    /\ pc' = "fatal"
    /\ UNCHANGED <<cfg, filter, stats, data, files, disk, nextUrl, metadata, fetches,
                   batch, bi, jobs, queue, pending>>
    /\ UNCHANGED hist

FetchErrors == {"NotFound", "AuthFailed", "ApiError"}

fetchPageFailNoSave ==
    /\ pc = "fetching"
    /\ \E kind \in FetchErrors : log' = Append(log, kind)
    /\ pc' = "draining"
    /\ UNCHANGED <<cfg, filter, stats, data, files, metaFile, disk, nextUrl, metadata,
                   fetches, batch, bi, jobs, queue, pending>>
    /\ UNCHANGED hist

\* the request rejects: fetchPage reports, saves and returns null; the loop breaks
fetchPageFail ==
    /\ pc = "fetching"
    /\ \E kind \in FetchErrors : log' = log \o <<kind, "save">>
    /\ metaFile' = save(data)
    /\ pc' = "draining"
    /\ UNCHANGED <<cfg, filter, stats, data, files, disk, nextUrl, metadata, fetches,
                   batch, bi, jobs, queue, pending>>
    /\ UNCHANGED hist

enqueueDownloadNoCount(st, item) == st

\* the counter update of enqueueDownload; the queue.add is queueAdd
enqueueDownload(st, item) == [st EXCEPT !.downloaded = @ + 1]

\* one iteration of the for loop of processBatch
processItem ==
    /\ pc = "batch"
    /\ bi <= Len(batch)
    /\ ~isLimitReached
    /\ LET item == batch[bi]
           scanned == [stats EXCEPT !.scanned = @ + 1]
           matched == [scanned EXCEPT !.matches = @ + 1]
           \* this.filter.test(item.meta?.prompt)
           outcome == predicate(filter, item.prompt)
       IN  /\ unscanned' = IF unscanned = <<>> THEN <<>> ELSE Tail(unscanned)
           /\ IF outcome = "X"
              THEN \* the exception leaves processBatch and lands in run's catch
                   /\ stats' = scanned
                   /\ metaFile' = save(data)
                   /\ log' = log \o <<"save", "FatalError">>
                   /\ pc' = "fatal"
                   /\ UNCHANGED <<jobs, queue, pending>>
              ELSE /\ UNCHANGED <<pc, metaFile, log>>
                   /\ IF outcome # "T"
                      THEN /\ stats' = scanned
                           /\ UNCHANGED <<jobs, queue, pending>>
                      ELSE IF hasFile(files, item.id)
                      THEN /\ stats' = [matched EXCEPT !.skipped = @ + 1]
                           /\ UNCHANGED <<jobs, queue, pending>>
                      ELSE /\ stats' = enqueueDownload(matched, item)
                           /\ SetQ(queueAdd(Q, item.id, disk, cfg.concurrency))
    /\ bi' = bi + 1
    /\ UNCHANGED <<cfg, filter, data, files, disk, nextUrl, metadata, fetches,
                   batch, latest>>

nextUrlAfter(meta) == IF stats.matches >= cfg.limit THEN FALSE ELSE meta.nextPage

endBatchNoSave ==
    /\ pc = "batch"
    /\ bi > Len(batch) \/ isLimitReached
    /\ IF cfg.offline
       THEN /\ pc' = "draining"
            /\ UNCHANGED <<metaFile, log, nextUrl>>
       ELSE /\ UNCHANGED <<metaFile, log>>
            /\ nextUrl' = nextUrlAfter(metadata)
            /\ pc' = "loop"
    /\ batch' = <<>>
    /\ bi' = 1
    /\ UNCHANGED <<cfg, filter, stats, data, files, disk, metadata, fetches,
                   jobs, queue, pending>>
    /\ UNCHANGED hist

\* processBatch returns: online, the page is saved and the cursor advanced
endBatch ==
    /\ pc = "batch"
    /\ bi > Len(batch) \/ isLimitReached
    /\ IF cfg.offline
       THEN /\ pc' = "draining"
            /\ UNCHANGED <<metaFile, log, nextUrl>>
       ELSE /\ metaFile' = save(data)
            /\ log' = Append(log, "save")
            /\ nextUrl' = nextUrlAfter(metadata)
            /\ pc' = "loop"
    /\ batch' = <<>>
    /\ bi' = 1
    /\ UNCHANGED <<cfg, filter, stats, data, files, disk, metadata, fetches,
                   jobs, queue, pending>>
    /\ UNCHANGED hist

finalizeNoWait ==
    /\ pc = "draining"
    /\ metaFile' = save(data)
    /\ log' = log \o <<"save", "Summary">>
    /\ pc' = "done"
    /\ UNCHANGED <<cfg, filter, stats, data, files, disk, nextUrl, metadata, fetches,
                   batch, bi, jobs, queue, pending>>
    /\ UNCHANGED hist

\* finalize: queue.onIdle() has resolved
finalize ==
    /\ pc = "draining"
    /\ isIdle
    /\ metaFile' = save(data)
    /\ log' = log \o <<"save", "Summary">>
    /\ pc' = "done"
    /\ UNCHANGED <<cfg, filter, stats, data, files, disk, nextUrl, metadata, fetches,
                   batch, bi, jobs, queue, pending>>
    /\ UNCHANGED hist

\* ---------------------------------------------------------------- download jobs
\* the orchestrator is suspended (or has returned): job callbacks can run
AtAwait == pc \in {"fetching", "draining", "done", "fatal"}

JobFrame == UNCHANGED <<pc, cfg, filter, stats, data, files, metaFile, nextUrl, metadata,
                        fetches, batch, bi, log, latest, unscanned>>

\* downloadItem's catch block: if (fs.existsSync(filePath)) fs.unlinkSync(filePath)
cleanup(d, id) == d \ {id}

\* the target file existed: downloadItem returned, the job settles
jobReturned ==
    /\ AtAwait
    /\ \E j \in 1..Len(jobs) :
        /\ jobs[j].st = "returning"
        /\ SetQ(jobSettled(Q, j, "ok", disk, cfg.concurrency))
        /\ UNCHANGED disk
    /\ JobFrame

\* axios rejects before any response
requestFails ==
    /\ AtAwait
    /\ \E j \in 1..Len(jobs) :
        /\ jobs[j].st = "requesting"
        /\ disk' = cleanup(disk, jobs[j].id)
        /\ SetQ(jobSettled(Q, j, "failed", disk', cfg.concurrency))
    /\ JobFrame

\* axios resolves with the response stream: pipeToFile creates the writer
responseArrives ==
    /\ AtAwait
    /\ \E j \in 1..Len(jobs) :
        /\ jobs[j].st = "requesting"
        /\ jobs' = [jobs EXCEPT ![j].st = "streaming", ![j].w = "opening"]
        /\ UNCHANGED <<queue, pending, disk>>
    /\ JobFrame

\* fs.createWriteStream's asynchronous open completes: the file exists
writerOpened ==
    /\ AtAwait
    /\ \E j \in 1..Len(jobs) :
        /\ jobs[j].w = "opening"
        /\ jobs' = [jobs EXCEPT ![j].w = "open"]
        /\ disk' = disk \cup {jobs[j].id}
        /\ UNCHANGED <<queue, pending>>
    /\ JobFrame

streamEndIndexesFile ==
    /\ AtAwait
    /\ \E j \in 1..Len(jobs) :
        /\ jobs[j].st = "streaming"
        /\ SetQ(jobSettled(Q, j, "ok", disk, cfg.concurrency))
        /\ files' = files \cup {jobs[j].id}
        /\ UNCHANGED disk
    /\ UNCHANGED <<pc, cfg, filter, stats, data, metaFile, nextUrl, metadata,
                   fetches, batch, bi, log, latest, unscanned>>

\* the response stream emits 'end': streamFinished resolves
streamEnd ==
    /\ AtAwait
    /\ \E j \in 1..Len(jobs) :
        /\ jobs[j].st = "streaming"
        /\ SetQ(jobSettled(Q, j, "ok", disk, cfg.concurrency))
        /\ UNCHANGED disk
    /\ JobFrame

streamErrorUnwinds ==
    /\ AtAwait
    /\ \E j \in 1..Len(jobs) :
        /\ jobs[j].st = "streaming"
        /\ disk' = cleanup(disk, jobs[j].id)
        /\ SetQ(jobSettled(Q, j, "failed", disk', cfg.concurrency))
    /\ pc' = "fatal"
    /\ log' = Append(log, "FatalError")
    /\ UNCHANGED <<cfg, filter, stats, data, files, metaFile, nextUrl, metadata,
                   fetches, batch, bi, latest, unscanned>>

\* the response stream emits 'error': streamFinished rejects, the catch block runs
streamError ==
    /\ AtAwait
    /\ \E j \in 1..Len(jobs) :
        /\ jobs[j].st = "streaming"
        /\ disk' = cleanup(disk, jobs[j].id)
        /\ SetQ(jobSettled(Q, j, "failed", disk', cfg.concurrency))
    /\ JobFrame

Next ==
    \/ CreateServices
    \/ initialize
    \/ runOfflineStrategy
    \/ runOnlineStrategy
    \/ fetchPageOk
    \/ fetchPageMalformed
    \/ fetchPageFail
    \/ processItem
    \/ endBatch
    \/ finalize
    \/ jobReturned
    \/ requestFails
    \/ responseArrives
    \/ writerOpened
    \/ streamEnd
    \/ streamError

Spec == Init /\ [][Next]_vars

\* ---------------------------------------------------------------- fair runs
\* The synchronous code between two awaits runs to its end, and onIdle()
\* resolves once the queue is idle; every page request resolves or rejects;
\* every download request resolves or rejects and every response stream ends
\* or errors.  The listing ends after MaxFetches pages at the latest.
\* Fairness is stated for the steps that follow initialize(): the runs in
\* question are those that have passed initialization.
Fairness ==
    /\ WF_vars(runOfflineStrategy \/ runOnlineStrategy \/ processItem \/ endBatch
                  \/ finalize)
    /\ WF_vars(fetchPageOk \/ fetchPageMalformed \/ fetchPageFail)
    /\ WF_vars(jobReturned)
    /\ WF_vars(requestFails \/ responseArrives)
    /\ WF_vars(streamEnd \/ streamError)

LiveSpec == Init /\ [][Next]_vars /\ Fairness

\* ---------------------------------------------------------------- filter runs
\* Runs that exercise the TagFilter: an offline run over a store of one record
\* whose image file is already on disk, for every query, exclude list and
\* prompt below.  CreateServices compiles the filter, processItem applies it.
QuerySymbols == {"cat", " ", "AND", "OR", "NOT", "(", ")"}

PromptWords == {"cat", "cats", "dog", "night", "NOT"}

\* "cat OR dog AND night", "cat OR (dog AND night)", "(cat OR dog) AND night"
QOrAnd == <<"cat", " ", "OR", " ", "dog", " ", "AND", " ", "night">>

QOrGroupAnd == <<"cat", " ", "OR", " ", "(", "dog", " ", "AND", " ", "night", ")">>

QGroupOrAnd == <<"(", "cat", " ", "OR", " ", "dog", ")", " ", "AND", " ", "night">>

\* "night AND cat OR dog", "night AND (cat OR dog)"
QAndOr == <<"night", " ", "AND", " ", "cat", " ", "OR", " ", "dog">>

QAndGroupOr == <<"night", " ", "AND", " ", "(", "cat", " ", "OR", " ", "dog", ")">>

\* "NOT (cat) OR (dog)", "NOT (cat OR dog)"
QNotGroupOr == <<"NOT", " ", "(", "cat", ")", " ", "OR", " ", "(", "dog", ")">>

QNotOfOr == <<"NOT", " ", "(", "cat", " ", "OR", " ", "dog", ")">>

\* "NOT cat", "dog AND NOT cat", "(cat OR dog) AND NOT night"
QNot == <<"NOT", " ", "cat">>

QAndNot == <<"dog", " ", "AND", " ", "NOT", " ", "cat">>

QGroupAndNot == <<"(", "cat", " ", "OR", " ", "dog", ")", " ", "AND", " ", "NOT", " ", "night">>

\* "(cat", "cat AND", "cat AND OR dog", "()", "cat ()", "cat AND ()"
QUnbalanced == <<"(", "cat">>

QDangling == <<"cat", " ", "AND">>

QAdjacent == <<"cat", " ", "AND", " ", "OR", " ", "dog">>

QEmptyGroup == <<"(", ")">>

QTermEmptyGroup == <<"cat", " ", "(", ")">>

QAndEmptyGroup == <<"cat", " ", "AND", " ", "(", ")">>

NamedQueries == {QOrAnd, QOrGroupAnd, QGroupOrAnd, QAndOr, QAndGroupOr, QNotGroupOr,
                 QNotOfOr, QNot, QAndNot,
                 QGroupAndNot, QUnbalanced, QDangling, QAdjacent, QEmptyGroup,
                 QTermEmptyGroup, QAndEmptyGroup}

FilterQueries == SeqsUpTo(QuerySymbols, MaxQueryLen) \cup NamedQueries

\* --exclude-tags "" and "dog,"
FilterExcludes == {<<>>, << <<"dog">>, <<>> >>}

FilterPrompts == SeqsUpTo(PromptWords, MaxPromptLen)

FilterInit ==
    /\ pc = "main"
    /\ cfg \in [offline : {TRUE}, limit : {1}, concurrency : {1},
                tags : FilterQueries, excludeTags : FilterExcludes]
    /\ filter = NoFilter
    /\ stats = [scanned |-> 0, matches |-> 0, downloaded |-> 0, skipped |-> 0]
    /\ data = <<>>
    /\ files = {}
    /\ metaFile \in {[st |-> "ok", arr |-> <<[id |-> 1, prompt |-> p]>>] : p \in FilterPrompts}
    /\ disk = {1}
    /\ nextUrl = FALSE
    /\ metadata = [nextPage |-> FALSE]
    /\ fetches = 0
    /\ batch = <<>>
    /\ bi = 1
    /\ jobs = <<>>
    /\ queue = <<>>
    /\ pending = 0
    /\ log = <<>>
    /\ latest = <<>>
    /\ unscanned = <<>>

FilterNext ==
    \/ CreateServices
    \/ initialize
    \/ runOfflineStrategy
    \/ processItem
    \/ endBatch
    \/ finalize

FilterSpec == FilterInit /\ [][FilterNext]_vars

\* ---------------------------------------------------------------- properties
JobIdx == 1..Len(jobs)

Running(job) == job.st \in {"returning", "requesting", "streaming"}

Settled(job) == job.st \in {"ok", "failed"}

AllJobsSettled == \A j \in JobIdx : Settled(jobs[j])

InLog(e) == \E i \in 1..Len(log) : log[i] = e

FetchFailed == \E i \in 1..Len(log) : log[i] \in FetchErrors

\* C1: matches never exceeds the limit, and once matches equals the limit no
\* further item is scanned and no further download job is submitted.
C1_LimitIsHardCeiling ==
    /\ [](stats.matches <= cfg.limit)
    /\ [][stats.matches = cfg.limit =>
             /\ stats'.scanned = stats.scanned
             /\ Len(jobs') = Len(jobs)]_vars

\* the limit was reached in the middle of a batch: items remain unscanned
C1_Witness ==
    /\ cfg.limit > 0
    /\ stats.matches = cfg.limit
    /\ pc = "batch"
    /\ bi <= Len(batch)

\* C2: a page request is issued only when matches < limit and, after the first
\* page, only when the last page received carried a next cursor.
C2_FetchOnlyBelowLimitWithCursor ==
    [][fetches' # fetches =>
         /\ stats.matches < cfg.limit
         /\ fetches = 0 \/ metadata.nextPage]_vars

\* limit 2 reached on a page whose cursor announced one more page: two jobs
\* submitted, the run is over and the announced page was never requested
C2_Witness ==
    /\ cfg.limit = 2
    /\ pc = "done"
    /\ fetches < MaxFetches
    /\ metadata.nextPage
    /\ stats.matches = 2
    /\ stats.scanned = 2
    /\ Len(jobs) = 2

\* C3: downloaded + skipped = matches after every item, and at run end;
\* downloaded counts the jobs submitted.
C3_DownloadedPlusSkippedIsMatches ==
    /\ stats.downloaded + stats.skipped = stats.matches
    /\ stats.downloaded = Len(jobs)

\* run end with a skipped match, a submitted download and a failed job
C3_Witness ==
    /\ pc = "done"
    /\ stats.skipped > 0
    /\ stats.downloaded > 0
    /\ \E j \in JobIdx : jobs[j].st = "failed"

\* C4: at most cfg.concurrency jobs execute at once, and a waiting job starts
\* only in a step in which a running job settles.
C4_AtMostConcurrencyRunning ==
    /\ [](Cardinality({j \in JobIdx : Running(jobs[j])}) <= cfg.concurrency)
    /\ [][\A j \in JobIdx :
             (jobs[j].st = "queued" /\ jobs'[j].st # "queued") =>
                 \E k \in JobIdx : Running(jobs[k]) /\ Settled(jobs'[k])]_vars

\* the pool is full and a submitted job waits
C4_Witness ==
    /\ Cardinality({j \in JobIdx : Running(jobs[j])}) = cfg.concurrency
    /\ queue # <<>>

\* C5: when the summary is emitted (DONE) every submitted job has settled and
\* the queue is idle.
C5_SummaryOnlyAfterAllJobs ==
    (pc = "done" \/ InLog("Summary")) => (AllJobsSettled /\ queue = <<>> /\ pending = 0)

\* DONE after the limit was reached, with a successful and a failed job
C5_Witness ==
    /\ pc = "done"
    /\ stats.matches = cfg.limit
    /\ \E j \in JobIdx : jobs[j].st = "failed"
    /\ \E j \in JobIdx : jobs[j].st = "ok" /\ jobs[j].w # "none"

\* C6: within one run no item id has more than one download job submitted.
C6_NoIdSubmittedTwice ==
    \A i, j \in JobIdx : jobs[i].id = jobs[j].id => i = j

\* C7: a job whose response stream errored leaves no file at its target path
\* once the job has settled and its writer has finished opening (jobs that
\* share their target with another job are left out).
C7_NoFileAfterStreamError ==
    \A j \in JobIdx :
        (/\ jobs[j].st = "failed"
         /\ jobs[j].w = "open"
         /\ \A k \in JobIdx : jobs[k].id = jobs[j].id => k = j)
        => jobs[j].id \notin disk

\* C8 as stated: after a page-fetch failure the run does not complete as DONE.
C8_FetchFailureEndsAborted ==
    FetchFailed => (pc # "done" /\ ~InLog("Summary"))

\* C8 amended: a page-fetch failure stops scanning (no further request, item or
\* job), leaves the store persisted with everything cached, and the run goes
\* on through the drain to the normal DONE step; it never takes the fatal path.
C8_FetchFailureStopsScanAndSaves ==
    /\ [](FetchFailed =>
            /\ pc \in {"draining", "done"}
            /\ metaFile.st = "ok" /\ metaFile.arr = data
            /\ ~InLog("FatalError"))
    /\ [][FetchFailed => (fetches' = fetches /\ stats' = stats /\ data' = data
                          /\ Len(jobs') = Len(jobs))]_vars

\* DONE with the summary after a fetch failure on a later page
C8_Witness ==
    /\ FetchFailed
    /\ pc = "done"
    /\ InLog("Summary")
    /\ fetches = 2
    /\ stats.scanned > 0
    /\ metaFile.arr = data
    /\ data # <<>>

\* C9 as stated: when the page-fetch failure is reported every job submitted
\* before it has completed.
C9_JobsCompleteBeforeReport ==
    FetchFailed => AllJobsSettled

\* C9 amended: after a page-fetch failure no job is submitted, no job is
\* dropped, and every job has settled when the run ends; the failure message
\* itself is printed at the time of the error.
C9_GracefulDrainAfterFetchFailure ==
    /\ []((FetchFailed /\ pc = "done") => AllJobsSettled)
    /\ [][FetchFailed =>
             /\ Len(jobs') = Len(jobs)
             /\ \A j \in JobIdx : jobs'[j].id = jobs[j].id
             /\ \A j \in JobIdx : Settled(jobs[j]) => jobs'[j].st = jobs[j].st]_vars

\* the failure has been reported, the drain waits for a job still in flight
C9_Witness ==
    /\ FetchFailed
    /\ pc = "draining"
    /\ pending > 0
    /\ \E j \in JobIdx : Running(jobs[j])

ErrorReports == {"InvalidSyntax", "Error", "FatalError"} \cup FetchErrors

\* C10 as stated: every error report is preceded by a store save.
C10_SaveBeforeEveryErrorReport ==
    \A i \in 1..Len(log) :
        log[i] \in ErrorReports => \E k \in 1..(i - 1) : log[k] = "save"

\* C10 amended: an exception thrown while scanning is reported right after a
\* store save; a page-fetch failure is reported right before its save; the
\* configuration errors are reported with no save at all.
C10_SaveAroundScanErrorsOnly ==
    \A i \in 1..Len(log) :
        /\ log[i] = "FatalError" => (i > 1 /\ log[i - 1] = "save")
        /\ log[i] \in FetchErrors => (i < Len(log) /\ log[i + 1] = "save")
        /\ log[i] \in {"InvalidSyntax", "Error"} => ~InLog("save")

\* a fatal error reported on the first page, when nothing had been saved before
C10_Witness ==
    /\ pc = "fatal"
    /\ log = <<"save", "FatalError">>
    /\ metaFile.st = "ok"

\* C11: an offline run whose store is empty after the load (no metadata file,
\* an empty array, or a corrupt file) ends at initialization with the error
\* report: no item is scanned, no page is requested, no job is submitted.
C11_OfflineEmptyFailsFast ==
    (/\ cfg.offline
     /\ pc \notin {"main", "init"}
     /\ compileOk(cfg.tags, cfg.excludeTags)
     /\ DOMAIN latest = {})
    => (/\ pc = "exit"
        /\ log = <<"Error">>
        /\ stats.scanned = 0
        /\ fetches = 0
        /\ jobs = <<>>
        /\ batch = <<>>)

\* the offline run over a corrupt metadata file has ended with the error
C11_Witness ==
    /\ cfg.offline
    /\ metaFile.st = "corrupt"
    /\ pc = "exit"
    /\ log = <<"Error">>

JobFails(j) == jobs[j].st # "failed" /\ jobs'[j].st = "failed"

\* C12: the step in which a job fails changes nothing of the orchestrator
\* (position, counters, store, batch, cursor, reports) and no other job except
\* to start the next waiting one; and once every job has settled, failed ones
\* included, the queue is idle, so that finalize proceeds to DONE.
C12_JobFailureDoesNotUnwind ==
    /\ [][\A j \in JobIdx : JobFails(j) =>
             /\ pc' = pc /\ stats' = stats /\ data' = data /\ log' = log
             /\ batch' = batch /\ bi' = bi /\ nextUrl' = nextUrl
             /\ Len(jobs') = Len(jobs)
             /\ \A k \in JobIdx \ {j} :
                    \/ jobs'[k] = jobs[k]
                    \/ jobs[k].st = "queued" /\ Running(jobs'[k])
             /\ queue # <<>> => jobs'[Head(queue)].st # "queued"]_vars
    /\ []((pc = "draining" /\ AllJobsSettled) => isIdle)

\* job 1 failed while page 2 was being fetched; page 2's match has just been
\* scanned and its job submitted and started
C12_Witness ==
    /\ pc = "batch"
    /\ bi = 2
    /\ Len(jobs) = 2
    /\ jobs[1].st = "failed"
    /\ jobs[2].st = "requesting"
    /\ jobs[2].id = batch[1].id
    /\ jobs[1].id # jobs[2].id

\* the step wrote the store to metadata.json
Saved == \E i \in (Len(log) + 1)..Len(log') : log'[i] = "save"

\* C13: in an online run every save leaves metadata.json holding every id
\* loaded at start and every id of every page received so far, matched or not,
\* scanned or not; and no id ever leaves the store.
C13_SaveKeepsEverythingSeen ==
    /\ [][(~cfg.offline /\ Saved) =>
             /\ metaFile'.st = "ok"
             /\ DOMAIN latest' \subseteq IdsOf(metaFile'.arr)]_vars
    /\ [][IdsOf(data) \subseteq IdsOf(data')]_vars

\* saved after the limit was reached in the middle of page 2: a record failed
\* the filter, a record of the page was never scanned, and both are on disk
C13_Witness ==
    /\ ~cfg.offline
    /\ pc = "loop"
    /\ fetches = 2
    /\ cfg.limit > 0
    /\ stats.matches = cfg.limit
    /\ stats.scanned > stats.matches
    /\ unscanned # <<>>
    /\ Head(unscanned) \in IdsOf(metaFile.arr)
    /\ metaFile.arr = data

\* C14: the store holds one entry per id, the entry of an id is the record
\* most recently loaded or upserted for it, and getAll() has as many entries
\* as distinct ids were ever inserted.
C14_OneEntryPerIdLastWriteWins ==
    /\ \A i, j \in 1..Len(data) : data[i].id = data[j].id => i = j
    /\ \A i \in 1..Len(data) : data[i].id \in DOMAIN latest /\ data[i] = latest[data[i].id]
    /\ Len(getAll(data)) = Cardinality(DOMAIN latest)

\* the first page re-sighted both loaded records, one with another prompt
C14_Witness ==
    /\ pc = "batch"
    /\ fetches = 1
    /\ metaFile.st = "ok"
    /\ Len(metaFile.arr) = 2
    /\ Len(data) = 2
    /\ Len(batch) = 2
    /\ \E i \in 1..2 : data[i].id = metaFile.arr[i].id /\ data[i].prompt # metaFile.arr[i].prompt

\* the prompt of the one record of a filter run
ThePrompt == metaFile.arr[1].prompt

\* some exclusion's pattern matches the prompt
Excluded ==
    \E i \in 1..Len(cfg.excludeTags) :
        cfg.excludeTags[i] # <<>> /\ ExclusionTest(cfg.excludeTags[i], ThePrompt)

\* the pattern of the one-word tag w matches the prompt
Has(w) == TermTest(<<w>>, ThePrompt)

\* C15: a record whose prompt matches an exclusion is scanned as a non-match,
\* whatever the include query is (and the predicate returns, it does not throw).
C15_ExclusionTakesPrecedence ==
    (stats.scanned = 1 /\ Excluded) => (stats.matches = 0 /\ pc # "fatal")

\* the include query alone accepts the prompt, the exclusion rejected it
C15_Witness ==
    /\ pc = "done"
    /\ stats.scanned = 1
    /\ stats.matches = 0
    /\ Excluded
    /\ cfg.tags = QOrAnd
    /\ test(cfg.tags, <<>>, ThePrompt)

\* C16: "cat OR dog AND night" selects as "cat OR (dog AND night)" does, that
\* is cat or (dog and night) and not (cat or dog) and night; likewise
\* "night AND cat OR dog" is (night and cat) or dog, its parenthesised form
\* "night AND (cat OR dog)" is what the grouping says, and a NOT in front of a
\* group negates that group only.  None of these queries is rejected.
C16_NotThenAndThenOr ==
    /\ (/\ cfg.tags \in {QOrAnd, QOrGroupAnd, QAndOr, QAndGroupOr, QNotGroupOr, QNotOfOr}
        /\ pc # "main")
           => pc \notin {"exit", "fatal"}
    /\ stats.scanned = 1 =>
        /\ cfg.tags \in {QOrAnd, QOrGroupAnd} =>
               (stats.matches = 1 <=>
                    (~Excluded /\ (Has("cat") \/ (Has("dog") /\ Has("night")))))
        /\ cfg.tags = QAndOr =>
               (stats.matches = 1 <=>
                    (~Excluded /\ ((Has("night") /\ Has("cat")) \/ Has("dog"))))
        /\ cfg.tags = QAndGroupOr =>
               (stats.matches = 1 <=>
                    (~Excluded /\ (Has("night") /\ (Has("cat") \/ Has("dog")))))
        /\ cfg.tags = QNotGroupOr =>
               (stats.matches = 1 <=> (~Excluded /\ (~Has("cat") \/ Has("dog"))))
        /\ cfg.tags = QNotOfOr =>
               (stats.matches = 1 <=> (~Excluded /\ ~(Has("cat") \/ Has("dog"))))

\* only cat matches the prompt and "cat OR dog AND night" selected the record
C16_Witness ==
    /\ pc = "done"
    /\ cfg.tags = QOrAnd
    /\ cfg.excludeTags = <<>>
    /\ ThePrompt = <<"cat">>
    /\ stats.matches = 1

\* C17: "NOT cat" selects exactly the prompts cat does not match, and
\* "dog AND NOT cat" exactly those dog matches and cat does not.
C17_NotIsNegation ==
    (stats.scanned = 1 /\ ~Excluded) =>
        /\ cfg.tags = QNot => (stats.matches = 1 <=> ~Has("cat"))
        /\ cfg.tags = QAndNot => (stats.matches = 1 <=> (Has("dog") /\ ~Has("cat")))

MalformedQueries == {QUnbalanced, QDangling, QAdjacent, QEmptyGroup, QTermEmptyGroup,
                     QAndEmptyGroup}

\* C18: a run with a malformed include query (unbalanced parenthesis, dangling
\* operator, adjacent binary operators, empty group) ends at the compilation of
\* the filter with the syntax report, before any item is scanned.
C18_MalformedRejectedAtCompile ==
    (cfg.tags \in MalformedQueries /\ pc # "main") =>
        (pc = "exit" /\ log = <<"InvalidSyntax">> /\ stats.scanned = 0)

\* C19 as stated: in an online run a record is scanned only when the store
\* containing its page is on disk.
C19_SavedBeforeProcessing ==
    [][(~cfg.offline /\ stats'.scanned # stats.scanned) => metaFile = save(data)]_vars

\* C19 amended: the page is upserted, then processed, then the store is saved:
\* a record is scanned only when the store in memory holds it; the step that
\* leaves the processing of a page (its end, the limit, or an exception of the
\* filter) saves the store; and a further page is requested only when the
\* store on disk holds every page received.
C19_UpsertProcessThenSave ==
    /\ [][(~cfg.offline /\ stats'.scanned # stats.scanned) =>
             \E i \in 1..Len(data) : data[i] = batch[bi]]_vars
    /\ [][(~cfg.offline /\ pc = "batch" /\ pc' # "batch") =>
             (Saved /\ metaFile' = save(data))]_vars
    /\ [][(fetches' # fetches /\ fetches > 0) => metaFile = save(data)]_vars

\* a record of the first page has been scanned and its download submitted
\* while no metadata file exists yet
C19_Witness ==
    /\ ~cfg.offline
    /\ pc = "batch"
    /\ bi > 1
    /\ fetches = 1
    /\ metaFile.st = "absent"
    /\ Len(jobs) = 1

\* C20: every scan step scans the first item of the source sequence that has
\* not been scanned yet (so the items scanned are a prefix of the source, in
\* order, each once), a submitted job is for that item; items yielded are left
\* unscanned only when the limit is reached; an offline run scans no more
\* records than the store holds.
C20_ScanFollowsSourceOrder ==
    /\ [][stats'.scanned # stats.scanned =>
             /\ stats'.scanned = stats.scanned + 1
             /\ unscanned # <<>>
             /\ batch[bi].id = Head(unscanned)
             /\ unscanned' = Tail(unscanned)
             /\ Len(jobs') > Len(jobs) => jobs'[Len(jobs')].id = Head(unscanned)]_vars
    /\ []((pc \in {"loop", "draining", "done"} /\ ~isLimitReached) => unscanned = <<>>)
    /\ []((cfg.offline /\ pc \in {"offline", "batch", "draining", "done"}) =>
              stats.scanned + Len(unscanned) = Len(data))

\* the limit was reached on the first record of page 2: three records scanned
\* in the order received, the rest of page 2 never scanned
C20_Witness ==
    /\ ~cfg.offline
    /\ pc = "done"
    /\ fetches = 2
    /\ stats.scanned = 3
    /\ stats.matches = cfg.limit
    /\ unscanned # <<>>

\* a step of the download jobs alone: a started job progresses or settles (and
\* the queue starts the next one), or a writer creates its file
JobEvent ==
    /\ Len(jobs') = Len(jobs)
    /\ jobs' # jobs \/ disk' # disk \/ pending' # pending

\* C21: a step of the download jobs (start of a waiting job, response, writer
\* open, stream end or error) leaves RunStats, the store and the FileIndex
\* unchanged; the counters change only in a scan step, the store only at the
\* load and when a page is received, and the FileIndex only at the load.
C21_JobsLeaveStatsStoreIndexAlone ==
    /\ [][JobEvent => (stats' = stats /\ data' = data /\ files' = files)]_vars
    /\ [][stats' # stats => pc = "batch"]_vars
    /\ [][data' # data => pc \in {"init", "fetching"}]_vars
    /\ [][files' # files => pc = "init"]_vars

\* a download has completed and its file is on disk; the FileIndex still is
\* what the load found and the counters what the scan left
C21_Witness ==
    /\ pc = "done"
    /\ \E j \in JobIdx : /\ jobs[j].st = "ok"
                         /\ jobs[j].w = "open"
                         /\ jobs[j].id \in disk
                         /\ jobs[j].id \notin files
    /\ \E j \in JobIdx : jobs[j].st = "failed"
    /\ stats.downloaded = Len(jobs)

\* initialize has returned: the scan is about to start
PassedInit == pc \in {"offline", "loop"}

\* C22 as stated: every run that passes initialization eventually emits the
\* final save and the summary with every job settled.
C22_EveryRunReachesDone ==
    PassedInit ~> (pc = "done" /\ InLog("Summary") /\ AllJobsSettled /\ isIdle)

\* C22 amended: every run that passes initialization eventually stops with the
\* store saved and every job settled, either at DONE after the final save and
\* the summary, or at the fatal-error report of run's catch block.
C22_EveryRunEndsSavedAndDrained ==
    PassedInit ~> (/\ \/ pc = "done" /\ InLog("Summary")
                      \/ pc = "fatal" /\ InLog("FatalError")
                   /\ metaFile = save(data)
                   /\ AllJobsSettled
                   /\ isIdle)

\* the second page came back without an items array: the fatal error was
\* reported and the jobs of the first page have since run to their end
C22_Witness ==
    /\ pc = "fatal"
    /\ fetches = 2
    /\ Len(jobs) = 1
    /\ AllJobsSettled
    /\ isIdle
    /\ \E j \in JobIdx : jobs[j].st = "ok" /\ jobs[j].w = "open"

TypeOK ==
    /\ pc \in {"main", "init", "offline", "loop", "fetching", "batch", "draining",
               "done", "fatal", "exit"}
    /\ pending \in 0..MaxConcurrency
    /\ stats.scanned \in Nat

====
